---- MODULE Spec2Model ----
(***************************************************************************)
(* Normative-type builders, compatibility predicates and wrappers of       *)
(* normativeTypesCPP: NTScalarMultiChannel (ntscalarMultiChannel.cpp) and  *)
(* NTNDArray (ntndarray.cpp).                                              *)
(*                                                                         *)
(* builder : the one builder object of the run (either kind), or NoBuilder *)
(* call    : the last call made: its name, its argument, its return value  *)
(*           and the builder configuration the argument was built from.    *)
(***************************************************************************)
EXTENDS Integers, Sequences, FiniteSets, TLC

VARIABLES builder, call

vars == <<builder, call>>

(***************************************************************************)
(* Bounds.                                                                 *)
(***************************************************************************)
\* longest extra-field list a builder is given through add()
MaxExtra == 2
\* most optional fields a received (not builder-made) schema carries
MaxOptional == 1

(***************************************************************************)
(* pvData introspection types, as the code uses them.                      *)
(***************************************************************************)
\* enum ScalarType, in declaration order
ScalarTypeSeq ==
    <<"boolean", "byte", "short", "int", "long", "ubyte", "ushort", "uint",
      "ulong", "float", "double", "string">>

pvBoolean == 1
pvInt == 4
pvLong == 5
pvDouble == 11
pvString == 12

\* a null shared pointer to a Field
NULL == [kind |-> "null", elem |-> 0, id |-> "", names |-> <<>>, fields |-> <<>>]

createScalar(t) ==
    [kind |-> "scalar", elem |-> t, id |-> "", names |-> <<>>, fields |-> <<>>]

createScalarArray(t) ==
    [kind |-> "scalarArray", elem |-> t, id |-> "", names |-> <<>>, fields |-> <<>>]

createStructureType(id, names, fields) ==
    [kind |-> "structure", elem |-> 0, id |-> id, names |-> names, fields |-> fields]

createStructureArray(st) ==
    [kind |-> "structureArray", elem |-> 0, id |-> st.id, names |-> st.names,
     fields |-> st.fields]

createUnion(names, fields) ==
    [kind |-> "union", elem |-> 0, id |-> "union", names |-> names, fields |-> fields]

createVariantUnion ==
    [kind |-> "union", elem |-> 0, id |-> "any", names |-> <<>>, fields |-> <<>>]

\* StandardField::alarm(), timeStamp(), display()
StandardAlarm ==
    createStructureType("alarm_t", <<"severity", "status", "message">>,
        <<createScalar(pvInt), createScalar(pvInt), createScalar(pvString)>>)

StandardTimeStamp ==
    createStructureType("time_t", <<"secondsPastEpoch", "nanoseconds", "userTag">>,
        <<createScalar(pvLong), createScalar(pvInt), createScalar(pvInt)>>)

StandardDisplay ==
    createStructureType("display_t",
        <<"limitLow", "limitHigh", "description", "format", "units">>,
        <<createScalar(pvDouble), createScalar(pvDouble), createScalar(pvString),
          createScalar(pvString), createScalar(pvString)>>)

\* Structure::getField(name): the first field of that name, or null
RECURSIVE IndexOf(_, _, _)
IndexOf(names, name, i) ==
    IF i > Len(names) THEN 0
    ELSE IF names[i] = name THEN i
    ELSE IndexOf(names, name, i + 1)

getField(st, name) ==
    LET i == IndexOf(st.names, name, 1)
    IN  IF i = 0 THEN NULL ELSE st.fields[i]

\* Structure::getField<ScalarArray>(name), getField<Scalar>(name): null on a
\* field of another class
getFieldAs(st, name, kind) ==
    LET f == getField(st, name)
    IN  IF f.kind = kind THEN f ELSE NULL

HasDuplicate(names) ==
    \E i, j \in 1..Len(names) : i < j /\ names[i] = names[j]

(***************************************************************************)
(* Structured values and sub-field handles.                                *)
(***************************************************************************)
NullPV == [kind |-> "pv", pv |-> FALSE, structure |-> NULL]

createPVStructureOf(st) == [kind |-> "pv", pv |-> TRUE, structure |-> st]

NoHandle == [name |-> "", field |-> NULL]

\* PVStructure::getSubField(name)
getSubField(pv, name) ==
    LET f == getField(pv.structure, name)
    IN  IF f = NULL THEN NoHandle ELSE [name |-> name, field |-> f]

\* PVStructure::getSubField<PVT>(name) for a PVT that fixes the field class
getSubFieldKind(pv, name, kind) ==
    LET h == getSubField(pv, name)
    IN  IF h.field.kind = kind THEN h ELSE NoHandle

\* PVStructure::getSubField<PVT>(name) for a PVT that fixes class and scalar type
getSubFieldTyped(pv, name, kind, t) ==
    LET h == getSubField(pv, name)
    IN  IF h.field.kind = kind /\ h.field.elem = t THEN h ELSE NoHandle

\* outcomes of a call
Fault == [kind |-> "fault"]
Thrown == [kind |-> "exception"]
This == [kind |-> "this"]
NullWrapper == [kind |-> "null"]
NoCfg == [kind |-> "none"]
NoBuilder == [kind |-> "none"]
Bool(b) == [kind |-> "bool", ret |-> b]

Call(op, arg, val, cfg) == [op |-> op, arg |-> arg, val |-> val, cfg |-> cfg]

(***************************************************************************)
(* NTScalarMultiChannelBuilder.                                            *)
(***************************************************************************)
NTScalarMultiChannel_URI == "epics:nt/NTScalarMultiChannel:1.0"

\* reset() as the TODO in it describes: isConnected no longer set by default
MC_reset_noIsConnected(b) ==
    [kind |-> "mc",
     extraFieldNames |-> <<>>,
     extraFields |-> <<>>,
     valueType |-> pvDouble,
     descriptor |-> FALSE,
     alarm |-> FALSE,
     timeStamp |-> FALSE,
     severity |-> FALSE,
     status |-> FALSE,
     message |-> FALSE,
     secondsPastEpoch |-> FALSE,
     nanoseconds |-> FALSE,
     userTag |-> FALSE,
     isConnected |-> FALSE]

\* void NTScalarMultiChannelBuilder::reset()
MC_reset(b) ==
    [kind |-> "mc",
     extraFieldNames |-> <<>>,
     extraFields |-> <<>>,
     valueType |-> pvDouble,
     descriptor |-> FALSE,
     alarm |-> FALSE,
     timeStamp |-> FALSE,
     severity |-> FALSE,
     status |-> FALSE,
     message |-> FALSE,
     secondsPastEpoch |-> FALSE,
     nanoseconds |-> FALSE,
     userTag |-> FALSE,
     isConnected |-> TRUE]

\* NTScalarMultiChannelBuilder::NTScalarMultiChannelBuilder(), reached through
\* NTScalarMultiChannel::createBuilder()
MC_createBuilder == MC_reset(NoBuilder)

Opt(flag, x) == IF flag THEN <<x>> ELSE <<>>

\* the names array with timeStamp emitted before alarm
MC_names_swapped(b) ==
    <<"value", "channelName">>
    \o Opt(b.descriptor, "descriptor")
    \o Opt(b.timeStamp, "timeStamp")
    \o Opt(b.alarm, "alarm")
    \o Opt(b.severity, "severity")
    \o Opt(b.status, "status")
    \o Opt(b.message, "message")
    \o Opt(b.secondsPastEpoch, "secondsPastEpoch")
    \o Opt(b.nanoseconds, "nanoseconds")
    \o Opt(b.userTag, "userTag")
    \o Opt(b.isConnected, "isConnected")
    \o b.extraFieldNames

\* the names and fields arrays NTScalarMultiChannelBuilder::createStructure fills
MC_names(b) ==
    <<"value", "channelName">>
    \o Opt(b.descriptor, "descriptor")
    \o Opt(b.alarm, "alarm")
    \o Opt(b.timeStamp, "timeStamp")
    \o Opt(b.severity, "severity")
    \o Opt(b.status, "status")
    \o Opt(b.message, "message")
    \o Opt(b.secondsPastEpoch, "secondsPastEpoch")
    \o Opt(b.nanoseconds, "nanoseconds")
    \o Opt(b.userTag, "userTag")
    \o Opt(b.isConnected, "isConnected")
    \o b.extraFieldNames

\* the fields array with secondsPastEpoch made an int array
MC_fields_intSeconds(b) ==
    <<createScalarArray(b.valueType), createScalarArray(pvString)>>
    \o Opt(b.descriptor, createScalar(pvString))
    \o Opt(b.alarm, StandardAlarm)
    \o Opt(b.timeStamp, StandardTimeStamp)
    \o Opt(b.severity, createScalarArray(pvInt))
    \o Opt(b.status, createScalarArray(pvInt))
    \o Opt(b.message, createScalarArray(pvString))
    \o Opt(b.secondsPastEpoch, createScalarArray(pvInt))
    \o Opt(b.nanoseconds, createScalarArray(pvInt))
    \o Opt(b.userTag, createScalarArray(pvInt))
    \o Opt(b.isConnected, createScalarArray(pvBoolean))
    \o b.extraFields

MC_fields(b) ==
    <<createScalarArray(b.valueType), createScalarArray(pvString)>>
    \o Opt(b.descriptor, createScalar(pvString))
    \o Opt(b.alarm, StandardAlarm)
    \o Opt(b.timeStamp, StandardTimeStamp)
    \o Opt(b.severity, createScalarArray(pvInt))
    \o Opt(b.status, createScalarArray(pvInt))
    \o Opt(b.message, createScalarArray(pvString))
    \o Opt(b.secondsPastEpoch, createScalarArray(pvLong))
    \o Opt(b.nanoseconds, createScalarArray(pvInt))
    \o Opt(b.userTag, createScalarArray(pvInt))
    \o Opt(b.isConnected, createScalarArray(pvBoolean))
    \o b.extraFields

\* FieldCreate::createStructure(id, names, fields): the structure; on a repeated
\* field name the framework may instead refuse with an exception
FieldCreate_createStructure(id, names, fields) ==
    {createStructureType(id, names, fields)}
    \cup (IF HasDuplicate(names) THEN {Thrown} ELSE {})

\* StructureConstPtr NTScalarMultiChannelBuilder::createStructure(): the possible
\* pairs of return value and builder state left behind; reset() runs only when
\* the structure was made
MC_createStructureOutcomes(b) ==
    {[st |-> st, b |-> IF st.kind = "exception" THEN b ELSE MC_reset(b)] :
        st \in FieldCreate_createStructure(NTScalarMultiChannel_URI,
                                           MC_names(b), MC_fields(b))}

(***************************************************************************)
(* NTField predicates on the standard sub-structures.                      *)
(***************************************************************************)
NTField_isAlarm(f) ==
    f.kind = "structure" /\ f.names = StandardAlarm.names
                         /\ f.fields = StandardAlarm.fields

NTField_isTimeStamp(f) ==
    f.kind = "structure" /\ f.names = StandardTimeStamp.names
                         /\ f.fields = StandardTimeStamp.fields

NTField_isDisplay(f) ==
    f.kind = "structure" /\ f.names = StandardDisplay.names
                         /\ f.fields = StandardDisplay.fields

(***************************************************************************)
(* NTScalarMultiChannel: compatibility predicate and wrapper.              *)
(***************************************************************************)
\* one "if present, must be a scalar array of t" block of isCompatible
OptArrayOk(st, name, t) ==
    getField(st, name) # NULL =>
        LET a == getFieldAs(st, name, "scalarArray")
        IN  ~(a = NULL \/ a.elem # t)

\* isCompatible with the timeStamp test left out
MC_isCompatible_noTimeStamp(st) ==
    IF st = NULL THEN FALSE
    ELSE IF getFieldAs(st, "value", "scalarArray") = NULL THEN FALSE
    ELSE IF getFieldAs(st, "channelName", "scalarArray") = NULL THEN FALSE
    ELSE IF getFieldAs(st, "channelName", "scalarArray").elem # pvString THEN FALSE
    ELSE IF ~OptArrayOk(st, "severity", pvInt) THEN FALSE
    ELSE IF ~OptArrayOk(st, "status", pvInt) THEN FALSE
    ELSE IF ~OptArrayOk(st, "message", pvString) THEN FALSE
    ELSE IF ~OptArrayOk(st, "secondsPastEpoch", pvLong) THEN FALSE
    ELSE IF ~OptArrayOk(st, "nanoseconds", pvInt) THEN FALSE
    ELSE IF ~OptArrayOk(st, "userTag", pvInt) THEN FALSE
    ELSE IF getField(st, "descriptor") # NULL
            /\ (getFieldAs(st, "descriptor", "scalar") = NULL
                \/ getFieldAs(st, "descriptor", "scalar").elem # pvString) THEN FALSE
    ELSE IF getField(st, "alarm") # NULL
            /\ ~NTField_isAlarm(getField(st, "alarm")) THEN FALSE
    ELSE TRUE

\* isCompatible with a test of isConnected like those of the other arrays
MC_isCompatible_testsIsConnected(st) ==
    IF st = NULL THEN FALSE
    ELSE IF getFieldAs(st, "value", "scalarArray") = NULL THEN FALSE
    ELSE IF getFieldAs(st, "channelName", "scalarArray") = NULL THEN FALSE
    ELSE IF getFieldAs(st, "channelName", "scalarArray").elem # pvString THEN FALSE
    ELSE IF ~OptArrayOk(st, "severity", pvInt) THEN FALSE
    ELSE IF ~OptArrayOk(st, "status", pvInt) THEN FALSE
    ELSE IF ~OptArrayOk(st, "message", pvString) THEN FALSE
    ELSE IF ~OptArrayOk(st, "secondsPastEpoch", pvLong) THEN FALSE
    ELSE IF ~OptArrayOk(st, "nanoseconds", pvInt) THEN FALSE
    ELSE IF ~OptArrayOk(st, "userTag", pvInt) THEN FALSE
    ELSE IF ~OptArrayOk(st, "isConnected", pvBoolean) THEN FALSE
    ELSE IF getField(st, "descriptor") # NULL
            /\ (getFieldAs(st, "descriptor", "scalar") = NULL
                \/ getFieldAs(st, "descriptor", "scalar").elem # pvString) THEN FALSE
    ELSE IF getField(st, "alarm") # NULL
            /\ ~NTField_isAlarm(getField(st, "alarm")) THEN FALSE
    ELSE IF getField(st, "timeStamp") # NULL
            /\ ~NTField_isTimeStamp(getField(st, "timeStamp")) THEN FALSE
    ELSE TRUE

\* bool NTScalarMultiChannel::isCompatible(StructureConstPtr const &)
MC_isCompatible(st) ==
    IF st = NULL THEN FALSE
    ELSE IF getFieldAs(st, "value", "scalarArray") = NULL THEN FALSE
    ELSE IF getFieldAs(st, "channelName", "scalarArray") = NULL THEN FALSE
    ELSE IF getFieldAs(st, "channelName", "scalarArray").elem # pvString THEN FALSE
    ELSE IF ~OptArrayOk(st, "severity", pvInt) THEN FALSE
    ELSE IF ~OptArrayOk(st, "status", pvInt) THEN FALSE
    ELSE IF ~OptArrayOk(st, "message", pvString) THEN FALSE
    ELSE IF ~OptArrayOk(st, "secondsPastEpoch", pvLong) THEN FALSE
    ELSE IF ~OptArrayOk(st, "nanoseconds", pvInt) THEN FALSE
    ELSE IF ~OptArrayOk(st, "userTag", pvInt) THEN FALSE
    ELSE IF getField(st, "descriptor") # NULL
            /\ (getFieldAs(st, "descriptor", "scalar") = NULL
                \/ getFieldAs(st, "descriptor", "scalar").elem # pvString) THEN FALSE
    ELSE IF getField(st, "alarm") # NULL
            /\ ~NTField_isAlarm(getField(st, "alarm")) THEN FALSE
    ELSE IF getField(st, "timeStamp") # NULL
            /\ ~NTField_isTimeStamp(getField(st, "timeStamp")) THEN FALSE
    ELSE TRUE

\* bool NTScalarMultiChannel::isCompatible(PVStructurePtr const &)
MC_isCompatiblePV(pv) ==
    IF ~pv.pv THEN FALSE ELSE MC_isCompatible(pv.structure)

\* NTScalarMultiChannel::NTScalarMultiChannel(PVStructurePtr const &) on a
\* non-null instance: every handle is resolved once, here
MC_Wrapper(pv) ==
    [kind |-> "NTScalarMultiChannel",
     pvNTScalarMultiChannel |-> pv,
     pvTimeStamp |-> getSubFieldKind(pv, "timeStamp", "structure"),
     pvAlarm |-> getSubFieldKind(pv, "alarm", "structure"),
     pvValue |-> getSubFieldKind(pv, "value", "scalarArray"),
     pvChannelName |-> getSubFieldTyped(pv, "channelName", "scalarArray", pvString),
     pvIsConnected |-> getSubFieldTyped(pv, "isConnected", "scalarArray", pvBoolean),
     pvSeverity |-> getSubFieldTyped(pv, "severity", "scalarArray", pvInt),
     pvStatus |-> getSubFieldTyped(pv, "status", "scalarArray", pvInt),
     pvMessage |-> getSubFieldTyped(pv, "message", "scalarArray", pvString),
     pvSecondsPastEpoch |-> getSubFieldTyped(pv, "secondsPastEpoch", "scalarArray", pvLong),
     pvNanoseconds |-> getSubFieldTyped(pv, "nanoseconds", "scalarArray", pvInt),
     pvUserTag |-> getSubFieldTyped(pv, "userTag", "scalarArray", pvInt),
     pvDescriptor |-> getSubFieldTyped(pv, "descriptor", "scalar", pvString)]

\* the constructor's possible outcomes: on a null instance the initialisers
\* dereference a null pointer, which is undefined: the call faults, or runs on
\* and leaves an object whose handles are all empty
MC_Construct(pv) ==
    IF pv.pv THEN {MC_Wrapper(pv)}
    ELSE {Fault, MC_Wrapper(NullPV)}

\* NTScalarMultiChannel::wrapUnsafe
MC_wrapUnsafeOutcomes(pv) == MC_Construct(pv)

\* wrap without its isCompatible test
MC_wrapOutcomes_unchecked(pv) == MC_wrapUnsafeOutcomes(pv)

\* NTScalarMultiChannel::wrap
MC_wrapOutcomes(pv) ==
    IF ~MC_isCompatiblePV(pv) THEN {NullWrapper} ELSE MC_wrapUnsafeOutcomes(pv)

\* PVTimeStamp::attach / PVAlarm::attach of the framework: they bind to a
\* structure that has the helper's three sub-fields
PVTimeStamp_attach(h) ==
    LET f == createPVStructureOf(h.field)
    IN  /\ getSubFieldTyped(f, "secondsPastEpoch", "scalar", pvLong) # NoHandle
        /\ getSubFieldTyped(f, "nanoseconds", "scalar", pvInt) # NoHandle
        /\ getSubFieldTyped(f, "userTag", "scalar", pvInt) # NoHandle

PVAlarm_attach(h) ==
    LET f == createPVStructureOf(h.field)
    IN  /\ getSubFieldTyped(f, "severity", "scalar", pvInt) # NoHandle
        /\ getSubFieldTyped(f, "status", "scalar", pvInt) # NoHandle
        /\ getSubFieldTyped(f, "message", "scalar", pvString) # NoHandle

Attached(ret, h) ==
    [kind |-> "bool", ret |-> ret, attached |-> IF ret THEN h ELSE NoHandle]

\* attachTimeStamp without its test of the cached handle
MC_attachTimeStamp_noTest(w) ==
    [kind |-> "bool", ret |-> TRUE, attached |-> w.pvTimeStamp]

\* bool NTScalarMultiChannel::attachTimeStamp(PVTimeStamp &) const
MC_attachTimeStamp(w) ==
    IF w.pvTimeStamp # NoHandle
    THEN Attached(PVTimeStamp_attach(w.pvTimeStamp), w.pvTimeStamp)
    ELSE Attached(FALSE, NoHandle)

\* bool NTScalarMultiChannel::attachAlarm(PVAlarm &) const
MC_attachAlarm(w) ==
    IF w.pvAlarm # NoHandle
    THEN Attached(PVAlarm_attach(w.pvAlarm), w.pvAlarm)
    ELSE Attached(FALSE, NoHandle)

(***************************************************************************)
(* NTNDArrayBuilder.                                                       *)
(***************************************************************************)
NTNDArray_URI == "uri:ev4:nt/2014/pwd:NTNDArray"

\* detail::ntAttrStr
ntAttrStr == "uri:ev4:nt/2014/pwd:NTAttribute"

\* void NTNDArrayBuilder::reset()
ND_reset(b) ==
    [kind |-> "nd",
     descriptor |-> FALSE,
     timeStamp |-> FALSE,
     alarm |-> FALSE,
     display |-> FALSE,
     extraFieldNames |-> <<>>,
     extraFields |-> <<>>]

\* NTNDArrayBuilder::NTNDArrayBuilder(), reached through NTNDArray::createBuilder()
ND_createBuilder == ND_reset(NoBuilder)

\* the union of "<type>Value" arrays, one per scalar type below pvString
ND_valueType ==
    createUnion([i \in pvBoolean..(pvString - 1) |-> ScalarTypeSeq[i] \o "Value"],
                [i \in pvBoolean..(pvString - 1) |-> createScalarArray(i)])

ND_codecStruc ==
    createStructureType("codec_t", <<"name", "parameters">>,
        <<createScalar(pvString), createVariantUnion>>)

ND_dimensionStruc ==
    createStructureType("dimension_t",
        <<"size", "offset", "fullSize", "binning", "reverse">>,
        <<createScalar(pvInt), createScalar(pvInt), createScalar(pvInt),
          createScalar(pvInt), createScalar(pvBoolean)>>)

ND_attributeStruc ==
    createStructureType(ntAttrStr,
        <<"name", "value", "descriptor", "sourceType", "source">>,
        <<createScalar(pvString), createVariantUnion, createScalar(pvString),
          createScalar(pvInt), createScalar(pvString)>>)

\* the fields NTNDArrayBuilder::createStructure hands to the field builder
ND_names(b) ==
    <<"value", "codec", "compressedSize", "uncompressedSize", "dimension",
      "uniqueId", "dataTimeStamp", "attribute">>
    \o Opt(b.descriptor, "descriptor")
    \o Opt(b.timeStamp, "timeStamp")
    \o Opt(b.alarm, "alarm")
    \o Opt(b.display, "display")
    \o b.extraFieldNames

\* the fields with the timeStamp toggle adding an alarm structure
ND_fields_alarmForTimeStamp(b) ==
    <<ND_valueType, ND_codecStruc, createScalar(pvLong), createScalar(pvLong),
      createStructureArray(ND_dimensionStruc), createScalar(pvInt),
      StandardTimeStamp, createStructureArray(ND_attributeStruc)>>
    \o Opt(b.descriptor, createScalar(pvString))
    \o Opt(b.timeStamp, StandardAlarm)
    \o Opt(b.alarm, StandardAlarm)
    \o Opt(b.display, StandardDisplay)
    \o b.extraFields

ND_fields(b) ==
    <<ND_valueType, ND_codecStruc, createScalar(pvLong), createScalar(pvLong),
      createStructureArray(ND_dimensionStruc), createScalar(pvInt),
      StandardTimeStamp, createStructureArray(ND_attributeStruc)>>
    \o Opt(b.descriptor, createScalar(pvString))
    \o Opt(b.timeStamp, StandardTimeStamp)
    \o Opt(b.alarm, StandardAlarm)
    \o Opt(b.display, StandardDisplay)
    \o b.extraFields

\* StructureConstPtr NTNDArrayBuilder::createStructure(): the possible pairs of
\* return value and builder state left behind
ND_createStructureOutcomes(b) ==
    {[st |-> st, b |-> b] :
        st \in FieldCreate_createStructure(NTNDArray_URI, ND_names(b), ND_fields(b))}

(***************************************************************************)
(* NTNDArray: predicates and wrapper.                                      *)
(***************************************************************************)
\* the results a step of undefined behaviour (a null dereference) can end in
Undefined == {Fault, Bool(TRUE), Bool(FALSE)}

\* bool NTNDArray::is_a(StructureConstPtr const &)
ND_is_a(st) == st.id = NTNDArray_URI

\* is_compatible with the attribute identifier compared to the ntAttrStr constant
ND_is_compatible_constant(pv) ==
    IF ~pv.pv THEN Undefined
    ELSE IF getSubFieldKind(pv, "value", "union") = NoHandle THEN {Bool(FALSE)}
    ELSE IF getSubField(pv, "descriptor") # NoHandle
            /\ getSubFieldTyped(pv, "descriptor", "scalar", pvString) = NoHandle
         THEN {Bool(FALSE)}
    ELSE IF getSubField(pv, "alarm") # NoHandle
            /\ ~NTField_isAlarm(getSubField(pv, "alarm").field) THEN {Bool(FALSE)}
    ELSE IF getSubField(pv, "timeStamp") # NoHandle
            /\ ~NTField_isTimeStamp(getSubField(pv, "timeStamp").field) THEN {Bool(FALSE)}
    ELSE IF getSubField(pv, "display") # NoHandle
            /\ ~NTField_isDisplay(getSubField(pv, "display").field) THEN {Bool(FALSE)}
    ELSE IF getSubFieldTyped(pv, "compressedSize", "scalar", pvLong) = NoHandle
         THEN {Bool(FALSE)}
    ELSE IF getSubFieldTyped(pv, "uncompressedSize", "scalar", pvLong) = NoHandle
         THEN {Bool(FALSE)}
    ELSE LET pvCodec == getSubFieldKind(pv, "codec", "structure")
             codec == createPVStructureOf(pvCodec.field)
             pvDimension == getSubFieldKind(pv, "dimension", "structureArray")
             pvAttribute == getSubFieldKind(pv, "attribute", "structureArray")
         IN  IF pvCodec = NoHandle THEN {Bool(FALSE)}
             ELSE IF getSubFieldTyped(codec, "name", "scalar", pvString) = NoHandle
                  THEN {Bool(FALSE)}
             ELSE IF getSubFieldKind(codec, "parameters", "union") = NoHandle
                  THEN {Bool(FALSE)}
             ELSE IF pvDimension = NoHandle THEN Undefined
             ELSE IF pvDimension.field.id # "dimension_t" THEN {Bool(FALSE)}
             ELSE IF getSubFieldTyped(pv, "uniqueId", "scalar", pvInt) = NoHandle
                  THEN {Bool(FALSE)}
             ELSE IF getSubField(pv, "dataTimeStamp") # NoHandle
                     /\ ~NTField_isTimeStamp(getSubField(pv, "dataTimeStamp").field)
                  THEN {Bool(FALSE)}
             ELSE IF pvAttribute = NoHandle THEN Undefined
             ELSE IF pvAttribute.field.id # ntAttrStr
                  THEN {Bool(FALSE)}
             ELSE {Bool(TRUE)}

\* bool NTNDArray::is_compatible(PVStructurePtr const &): the possible results
ND_is_compatible(pv) ==
    IF ~pv.pv THEN Undefined
    ELSE IF getSubFieldKind(pv, "value", "union") = NoHandle THEN {Bool(FALSE)}
    ELSE IF getSubField(pv, "descriptor") # NoHandle
            /\ getSubFieldTyped(pv, "descriptor", "scalar", pvString) = NoHandle
         THEN {Bool(FALSE)}
    ELSE IF getSubField(pv, "alarm") # NoHandle
            /\ ~NTField_isAlarm(getSubField(pv, "alarm").field) THEN {Bool(FALSE)}
    ELSE IF getSubField(pv, "timeStamp") # NoHandle
            /\ ~NTField_isTimeStamp(getSubField(pv, "timeStamp").field) THEN {Bool(FALSE)}
    ELSE IF getSubField(pv, "display") # NoHandle
            /\ ~NTField_isDisplay(getSubField(pv, "display").field) THEN {Bool(FALSE)}
    ELSE IF getSubFieldTyped(pv, "compressedSize", "scalar", pvLong) = NoHandle
         THEN {Bool(FALSE)}
    ELSE IF getSubFieldTyped(pv, "uncompressedSize", "scalar", pvLong) = NoHandle
         THEN {Bool(FALSE)}
    ELSE LET pvCodec == getSubFieldKind(pv, "codec", "structure")
             codec == createPVStructureOf(pvCodec.field)
             pvDimension == getSubFieldKind(pv, "dimension", "structureArray")
             pvAttribute == getSubFieldKind(pv, "attribute", "structureArray")
         IN  IF pvCodec = NoHandle THEN {Bool(FALSE)}
             ELSE IF getSubFieldTyped(codec, "name", "scalar", pvString) = NoHandle
                  THEN {Bool(FALSE)}
             ELSE IF getSubFieldKind(codec, "parameters", "union") = NoHandle
                  THEN {Bool(FALSE)}
             ELSE IF pvDimension = NoHandle THEN Undefined
             ELSE IF pvDimension.field.id # "dimension_t" THEN {Bool(FALSE)}
             ELSE IF getSubFieldTyped(pv, "uniqueId", "scalar", pvInt) = NoHandle
                  THEN {Bool(FALSE)}
             ELSE IF getSubField(pv, "dataTimeStamp") # NoHandle
                     /\ ~NTField_isTimeStamp(getSubField(pv, "dataTimeStamp").field)
                  THEN {Bool(FALSE)}
             ELSE IF pvAttribute = NoHandle THEN Undefined
             ELSE IF (IF pvAttribute.field.id = "ntAttrStr" THEN 1 ELSE 0) # 0
                  THEN {Bool(FALSE)}
             ELSE {Bool(TRUE)}

\* NTNDArray::NTNDArray(PVStructurePtr const &): stores the pointer, null or not
ND_Wrapper(pv) == [kind |-> "NTNDArray", pvNTNDArray |-> pv]

\* NTNDArray::narrow_unsafe
ND_narrow_unsafe(pv) == ND_Wrapper(pv)

\* NTNDArray::narrow
ND_narrow(pv) ==
    IF ~pv.pv \/ ~ND_is_a(pv.structure) THEN NullWrapper ELSE ND_narrow_unsafe(pv)

\* the outcomes of an attach on a wrapper: the getter dereferences pvNTNDArray,
\* which is undefined when the wrapper holds a null instance
ND_attachOutcomes(w, name, ok) ==
    IF ~w.pvNTNDArray.pv
    THEN {Fault, Attached(FALSE, NoHandle)}
    ELSE LET h == getSubFieldKind(w.pvNTNDArray, name, "structure")
         IN  IF h # NoHandle THEN {Attached(ok, h)} ELSE {Attached(FALSE, NoHandle)}

\* bool NTNDArray::attachTimeStamp(PVTimeStamp &) const
ND_attachTimeStamp(w) ==
    ND_attachOutcomes(w, "timeStamp",
        PVTimeStamp_attach(getSubFieldKind(w.pvNTNDArray, "timeStamp", "structure")))

\* bool NTNDArray::attachDataTimeStamp(PVTimeStamp &) const
ND_attachDataTimeStamp(w) ==
    ND_attachOutcomes(w, "dataTimeStamp",
        PVTimeStamp_attach(getSubFieldKind(w.pvNTNDArray, "dataTimeStamp", "structure")))

\* bool NTNDArray::attachAlarm(PVAlarm &) const
ND_attachAlarm(w) ==
    ND_attachOutcomes(w, "alarm",
        PVAlarm_attach(getSubFieldKind(w.pvNTNDArray, "alarm", "structure")))

(***************************************************************************)
(* Inputs of the calls.                                                    *)
(***************************************************************************)
\* scalar types handed to value()
ValueTypes == {pvInt, pvDouble, pvString}

\* names and fields handed to add()
ExtraNames == {"user", "timeStamp"}
ExtraFields == {createScalar(pvInt)}

(***************************************************************************)
(* Calls on an NTScalarMultiChannelBuilder.                                *)
(***************************************************************************)
MCB_value ==
    /\ builder.kind = "mc"
    /\ \E scalarType \in ValueTypes :
          builder' = [builder EXCEPT !.valueType = scalarType]
    /\ call' = Call("MCB_value", NULL, This, NoCfg)

MCB_addDescriptor ==
    /\ builder.kind = "mc"
    /\ builder' = [builder EXCEPT !.descriptor = TRUE]
    /\ call' = Call("MCB_addDescriptor", NULL, This, NoCfg)

\* addAlarm setting the timeStamp flag as well
MCB_addAlarm_alsoTimeStamp ==
    /\ builder.kind = "mc"
    /\ builder' = [builder EXCEPT !.alarm = TRUE, !.timeStamp = TRUE]
    /\ call' = Call("MCB_addAlarm", NULL, This, NoCfg)

MCB_addAlarm ==
    /\ builder.kind = "mc"
    /\ builder' = [builder EXCEPT !.alarm = TRUE]
    /\ call' = Call("MCB_addAlarm", NULL, This, NoCfg)

MCB_addTimeStamp ==
    /\ builder.kind = "mc"
    /\ builder' = [builder EXCEPT !.timeStamp = TRUE]
    /\ call' = Call("MCB_addTimeStamp", NULL, This, NoCfg)

MCB_addSeverity ==
    /\ builder.kind = "mc"
    /\ builder' = [builder EXCEPT !.severity = TRUE]
    /\ call' = Call("MCB_addSeverity", NULL, This, NoCfg)

MCB_addStatus ==
    /\ builder.kind = "mc"
    /\ builder' = [builder EXCEPT !.status = TRUE]
    /\ call' = Call("MCB_addStatus", NULL, This, NoCfg)

MCB_addMessage ==
    /\ builder.kind = "mc"
    /\ builder' = [builder EXCEPT !.message = TRUE]
    /\ call' = Call("MCB_addMessage", NULL, This, NoCfg)

MCB_addSecondsPastEpoch ==
    /\ builder.kind = "mc"
    /\ builder' = [builder EXCEPT !.secondsPastEpoch = TRUE]
    /\ call' = Call("MCB_addSecondsPastEpoch", NULL, This, NoCfg)

MCB_addNanoseconds ==
    /\ builder.kind = "mc"
    /\ builder' = [builder EXCEPT !.nanoseconds = TRUE]
    /\ call' = Call("MCB_addNanoseconds", NULL, This, NoCfg)

MCB_addUserTag ==
    /\ builder.kind = "mc"
    /\ builder' = [builder EXCEPT !.userTag = TRUE]
    /\ call' = Call("MCB_addUserTag", NULL, This, NoCfg)

MCB_addIsConnected ==
    /\ builder.kind = "mc"
    /\ builder' = [builder EXCEPT !.isConnected = TRUE]
    /\ call' = Call("MCB_addIsConnected", NULL, This, NoCfg)

MCB_add ==
    /\ builder.kind = "mc"
    /\ Len(builder.extraFieldNames) < MaxExtra
    /\ \E name \in ExtraNames, field \in ExtraFields :
          builder' = [builder EXCEPT !.extraFields = Append(@, field),
                                     !.extraFieldNames = Append(@, name)]
    /\ call' = Call("MCB_add", NULL, This, NoCfg)

MCB_createStructure ==
    /\ builder.kind = "mc"
    /\ \E o \in MC_createStructureOutcomes(builder) :
          /\ builder' = o.b
          /\ call' = Call("MCB_createStructure", NULL, o.st, builder)

\* pvDataCreate->createPVStructure(createStructure())
MCB_createPVStructure ==
    /\ builder.kind = "mc"
    /\ \E o \in MC_createStructureOutcomes(builder) :
          /\ builder' = o.b
          /\ call' = Call("MCB_createPVStructure", NULL,
                          IF o.st.kind = "exception" THEN Thrown
                          ELSE createPVStructureOf(o.st), builder)

\* new NTScalarMultiChannel(createPVStructure())
MCB_create ==
    /\ builder.kind = "mc"
    /\ \E o \in MC_createStructureOutcomes(builder) :
          /\ builder' = o.b
          /\ \E w \in (IF o.st.kind = "exception" THEN {Thrown}
                       ELSE MC_Construct(createPVStructureOf(o.st))) :
                call' = Call("MCB_create", NULL, w, builder)

(***************************************************************************)
(* Calls on an NTNDArrayBuilder.                                           *)
(***************************************************************************)
NDB_addDescriptor ==
    /\ builder.kind = "nd"
    /\ builder' = [builder EXCEPT !.descriptor = TRUE]
    /\ call' = Call("NDB_addDescriptor", NULL, This, NoCfg)

NDB_addAlarm ==
    /\ builder.kind = "nd"
    /\ builder' = [builder EXCEPT !.alarm = TRUE]
    /\ call' = Call("NDB_addAlarm", NULL, This, NoCfg)

NDB_addTimeStamp ==
    /\ builder.kind = "nd"
    /\ builder' = [builder EXCEPT !.timeStamp = TRUE]
    /\ call' = Call("NDB_addTimeStamp", NULL, This, NoCfg)

NDB_addDisplay ==
    /\ builder.kind = "nd"
    /\ builder' = [builder EXCEPT !.display = TRUE]
    /\ call' = Call("NDB_addDisplay", NULL, This, NoCfg)

NDB_add ==
    /\ builder.kind = "nd"
    /\ Len(builder.extraFieldNames) < MaxExtra
    /\ \E name \in ExtraNames, field \in ExtraFields :
          builder' = [builder EXCEPT !.extraFields = Append(@, field),
                                     !.extraFieldNames = Append(@, name)]
    /\ call' = Call("NDB_add", NULL, This, NoCfg)

NDB_createStructure ==
    /\ builder.kind = "nd"
    /\ \E o \in ND_createStructureOutcomes(builder) :
          /\ builder' = o.b
          /\ call' = Call("NDB_createStructure", NULL, o.st, builder)

\* getPVDataCreate()->createPVStructure(createStructure())
NDB_createPVStructure ==
    /\ builder.kind = "nd"
    /\ \E o \in ND_createStructureOutcomes(builder) :
          /\ builder' = o.b
          /\ call' = Call("NDB_createPVStructure", NULL,
                          IF o.st.kind = "exception" THEN Thrown
                          ELSE createPVStructureOf(o.st), builder)

\* new NTNDArray(createPVStructure())
NDB_create ==
    /\ builder.kind = "nd"
    /\ \E o \in ND_createStructureOutcomes(builder) :
          /\ builder' = o.b
          /\ call' = Call("NDB_create", NULL,
                          IF o.st.kind = "exception" THEN Thrown
                          ELSE ND_Wrapper(createPVStructureOf(o.st)), builder)

(***************************************************************************)
(* Calls on an instance (the last call's return value) and on a wrapper.   *)
(***************************************************************************)
HasInstance == call.val.kind = "pv"

MC_call_isCompatibleStructure ==
    /\ HasInstance
    /\ call' = Call("MC_isCompatibleStructure", call.val.structure,
                    Bool(MC_isCompatible(call.val.structure)), call.cfg)
    /\ UNCHANGED builder

MC_call_isCompatible ==
    /\ HasInstance
    /\ call' = Call("MC_isCompatible", call.val,
                    Bool(MC_isCompatiblePV(call.val)), call.cfg)
    /\ UNCHANGED builder

MC_call_wrap ==
    /\ HasInstance
    /\ \E w \in MC_wrapOutcomes(call.val) :
          call' = Call("MC_wrap", call.val, w, call.cfg)
    /\ UNCHANGED builder

MC_call_wrapUnsafe ==
    /\ HasInstance
    /\ \E w \in MC_wrapUnsafeOutcomes(call.val) :
          call' = Call("MC_wrapUnsafe", call.val, w, call.cfg)
    /\ UNCHANGED builder

MC_call_attachTimeStamp ==
    /\ call.val.kind = "NTScalarMultiChannel"
    /\ call' = Call("MC_attachTimeStamp", call.val, MC_attachTimeStamp(call.val),
                    call.cfg)
    /\ UNCHANGED builder

MC_call_attachAlarm ==
    /\ call.val.kind = "NTScalarMultiChannel"
    /\ call' = Call("MC_attachAlarm", call.val, MC_attachAlarm(call.val), call.cfg)
    /\ UNCHANGED builder

ND_call_is_compatible ==
    /\ HasInstance
    /\ \E r \in ND_is_compatible(call.val) :
          call' = Call("ND_is_compatible", call.val, r, call.cfg)
    /\ UNCHANGED builder

ND_call_narrow ==
    /\ HasInstance
    /\ call' = Call("ND_narrow", call.val, ND_narrow(call.val), call.cfg)
    /\ UNCHANGED builder

ND_call_narrow_unsafe ==
    /\ HasInstance
    /\ call' = Call("ND_narrow_unsafe", call.val, ND_narrow_unsafe(call.val), call.cfg)
    /\ UNCHANGED builder

ND_call_attachTimeStamp ==
    /\ call.val.kind = "NTNDArray"
    /\ \E r \in ND_attachTimeStamp(call.val) :
          call' = Call("ND_attachTimeStamp", call.val, r, call.cfg)
    /\ UNCHANGED builder

ND_call_attachDataTimeStamp ==
    /\ call.val.kind = "NTNDArray"
    /\ \E r \in ND_attachDataTimeStamp(call.val) :
          call' = Call("ND_attachDataTimeStamp", call.val, r, call.cfg)
    /\ UNCHANGED builder

ND_call_attachAlarm ==
    /\ call.val.kind = "NTNDArray"
    /\ \E r \in ND_attachAlarm(call.val) :
          call' = Call("ND_attachAlarm", call.val, r, call.cfg)
    /\ UNCHANGED builder

InstanceCalls ==
    \/ MC_call_isCompatibleStructure
    \/ MC_call_isCompatible
    \/ MC_call_wrap
    \/ MC_call_wrapUnsafe
    \/ MC_call_attachTimeStamp
    \/ MC_call_attachAlarm
    \/ ND_call_is_compatible
    \/ ND_call_narrow
    \/ ND_call_narrow_unsafe
    \/ ND_call_attachTimeStamp
    \/ ND_call_attachDataTimeStamp
    \/ ND_call_attachAlarm

(***************************************************************************)
(* Specification of a builder's life: createBuilder() of either type, then *)
(* any calls on the builder and on what it made.                           *)
(***************************************************************************)
NoCall == Call("none", NULL, This, NoCfg)

Init ==
    /\ builder \in {MC_createBuilder, ND_createBuilder}
    /\ call = NoCall

Next ==
    \/ MCB_value
    \/ MCB_addDescriptor
    \/ MCB_addAlarm
    \/ MCB_addTimeStamp
    \/ MCB_addSeverity
    \/ MCB_addStatus
    \/ MCB_addMessage
    \/ MCB_addSecondsPastEpoch
    \/ MCB_addNanoseconds
    \/ MCB_addUserTag
    \/ MCB_addIsConnected
    \/ MCB_add
    \/ MCB_createStructure
    \/ MCB_createPVStructure
    \/ MCB_create
    \/ NDB_addDescriptor
    \/ NDB_addAlarm
    \/ NDB_addTimeStamp
    \/ NDB_addDisplay
    \/ NDB_add
    \/ NDB_createStructure
    \/ NDB_createPVStructure
    \/ NDB_create
    \/ InstanceCalls

Spec == Init /\ [][Next]_vars

(***************************************************************************)
(* Specification of received data: an instance that did not come from a    *)
(* builder of this run (or no instance at all) is handed to the predicates *)
(* and wrappers.                                                           *)
(***************************************************************************)
\* the optional field names NTScalarMultiChannel knows, in builder order
OptionalNames ==
    <<"descriptor", "alarm", "timeStamp", "severity", "status", "message",
      "secondsPastEpoch", "nanoseconds", "userTag", "isConnected">>

\* types a received field may have
ReceivedTypes ==
    {createScalarArray(pvInt), createScalarArray(pvString), createScalarArray(pvLong),
     createScalarArray(pvBoolean), createScalar(pvString), createScalar(pvInt),
     StandardAlarm, StandardTimeStamp}

\* what a received schema may carry as "value" and as "channelName" (NULL: absent)
ReceivedMandatory ==
    {NULL, createScalarArray(pvInt), createScalarArray(pvString), createScalar(pvString)}

OptionalChoices ==
    {s \in SUBSET {OptionalNames[i] : i \in 1..Len(OptionalNames)} :
        Cardinality(s) <= MaxOptional}

ReceivedStructure(v, c, s, t) ==
    LET opt == SelectSeq(OptionalNames, LAMBDA n : n \in s)
    IN  createStructureType(NTScalarMultiChannel_URI,
            Opt(v # NULL, "value") \o Opt(c # NULL, "channelName") \o opt,
            Opt(v # NULL, v) \o Opt(c # NULL, c) \o [i \in 1..Len(opt) |-> t[opt[i]]])

Received ==
    {NullPV} \cup
    {createPVStructureOf(ReceivedStructure(v, c, s, t)) :
        v \in ReceivedMandatory, c \in ReceivedMandatory,
        <<s, t>> \in UNION {{<<s, t>> : t \in [s -> ReceivedTypes]} : s \in OptionalChoices}}

InitReceived ==
    /\ builder = NoBuilder
    /\ call \in {Call("input", NULL, pv, NoCfg) : pv \in Received}

NextReceived == InstanceCalls

SpecReceived == InitReceived /\ [][NextReceived]_vars

(***************************************************************************)
(* Specification of received NTNDArray data: an instance shaped like the   *)
(* one NTNDArrayBuilder makes, except for a few fields that are missing or *)
(* of another type, for the identifier of its attribute elements and for   *)
(* its own identifier.                                                     *)
(***************************************************************************)
\* most fields in which a received NTNDArray-like schema departs from the builder's
MaxDeviations == 1

\* the fields NTNDArrayBuilder::createStructure always emits
NDMandatoryNames == ND_names(ND_createBuilder)

\* identifiers a received schema may carry, and its attribute elements may carry
ReceivedIds == {NTNDArray_URI, "other"}
ReceivedAttributeIds == {ntAttrStr, "ntAttrStr", "other_t"}

\* what may stand in place of a field of the builder's schema (NULL: the field
\* is missing)
Replacements(name) ==
    CASE name = "value" -> {NULL, createScalarArray(pvDouble)}
      [] name = "codec" ->
            {NULL, createScalar(pvString),
             createStructureType("codec_t", <<"parameters">>, <<createVariantUnion>>),
             createStructureType("codec_t", <<"name", "parameters">>,
                                 <<createScalar(pvString), createScalar(pvString)>>)}
      [] name = "compressedSize" -> {NULL, createScalar(pvInt)}
      [] name = "uncompressedSize" -> {NULL, createScalar(pvInt)}
      [] name = "dimension" ->
            {NULL, createScalar(pvInt),
             createStructureArray(createStructureType("other_t", <<>>, <<>>))}
      [] name = "uniqueId" -> {NULL, createScalar(pvLong)}
      [] name = "dataTimeStamp" -> {NULL, StandardAlarm}
      [] name = "attribute" -> {NULL, createScalar(pvInt)}

\* the deviations: a replacement for each of at most MaxDeviations fields
Deviations ==
    UNION {{d \in [D -> UNION {Replacements(n) : n \in D}] :
                \A n \in D : d[n] \in Replacements(n)} :
           D \in {D \in SUBSET {NDMandatoryNames[i] : i \in 1..Len(NDMandatoryNames)} :
                     Cardinality(D) <= MaxDeviations}}

ReceivedNDStructure(id, attrId, d) ==
    LET kept == SelectSeq(NDMandatoryNames,
                          LAMBDA n : ~(n \in DOMAIN d /\ d[n] = NULL))
        attr == createStructureArray(
                    createStructureType(attrId, ND_attributeStruc.names,
                                        ND_attributeStruc.fields))
        base == createStructureType(id, NDMandatoryNames, ND_fields(ND_createBuilder))
    IN  createStructureType(id, kept,
            [i \in 1..Len(kept) |->
                IF kept[i] \in DOMAIN d THEN d[kept[i]]
                ELSE IF kept[i] = "attribute" THEN attr
                ELSE getField(base, kept[i])])

ReceivedND ==
    {createPVStructureOf(ReceivedNDStructure(id, attrId, d)) :
        id \in ReceivedIds, attrId \in ReceivedAttributeIds, d \in Deviations}

InitReceivedND ==
    /\ builder = NoBuilder
    /\ call \in {Call("input", NULL, pv, NoCfg) : pv \in ReceivedND}

NextReceivedND == InstanceCalls

SpecReceivedND == InitReceivedND /\ [][NextReceivedND]_vars

(***************************************************************************)
(* Properties.                                                             *)
(***************************************************************************)
CreateOps ==
    {"MCB_createStructure", "MCB_createPVStructure", "MCB_create",
     "NDB_createStructure", "NDB_createPVStructure", "NDB_create"}

\* C1: after createStructure, createPVStructure or create has returned, on
\* either builder, every flag, the value element type and the extra-field list
\* of the builder equal those of a freshly constructed builder of its type.
C1_ResetAfterCreate ==
    (call.op \in CreateOps /\ call.val.kind # "exception") =>
        /\ builder.kind = "mc" => builder = MC_createBuilder
        /\ builder.kind = "nd" => builder = ND_createBuilder

\* C1, the NTScalarMultiChannelBuilder half alone: its create calls leave a
\* fresh builder behind.
C1_ResetAfterCreateMC ==
    (call.op \in CreateOps /\ call.val.kind # "exception" /\ builder.kind = "mc") =>
        /\ builder.valueType = pvDouble
        /\ builder.extraFieldNames = <<>> /\ builder.extraFields = <<>>
        /\ \A i \in 1..(Len(OptionalNames) - 1) : ~builder[OptionalNames[i]]

\* C2 as stated: wrap returns an empty result exactly when isCompatible is
\* false, and wrapUnsafe returns a wrapper, without a fault, for every argument,
\* the null instance included.
C2_WrapUnsafeAlwaysWraps ==
    /\ call.op = "MC_wrap" =>
          /\ call.val.kind \in {"null", "NTScalarMultiChannel"}
          /\ call.val.kind = "null" <=> ~MC_isCompatiblePV(call.arg)
    /\ call.op = "MC_wrapUnsafe" => call.val.kind = "NTScalarMultiChannel"

\* C2 amended: wrap returns an empty result exactly when isCompatible is false
\* (the null instance included) and otherwise a wrapper of its argument;
\* wrapUnsafe returns a wrapper of its argument, without a fault, for every
\* non-null argument, compatible or not.
C2_WrapChecksWrapUnsafeNot ==
    /\ call.op = "MC_wrap" =>
          /\ call.val.kind \in {"null", "NTScalarMultiChannel"}
          /\ call.val.kind = "null" <=> ~MC_isCompatiblePV(call.arg)
          /\ call.val.kind = "NTScalarMultiChannel" =>
                call.val.pvNTScalarMultiChannel = call.arg
          /\ ~call.arg.pv => call.val.kind = "null"
    /\ (call.op = "MC_wrapUnsafe" /\ call.arg.pv) =>
          /\ call.val.kind = "NTScalarMultiChannel"
          /\ call.val.pvNTScalarMultiChannel = call.arg

\* C2 witness: wrapUnsafe has wrapped a non-null instance that isCompatible rejects.
C2_Witness ==
    /\ call.op = "MC_wrapUnsafe"
    /\ call.arg.pv
    /\ ~MC_isCompatiblePV(call.arg)
    /\ call.val.kind = "NTScalarMultiChannel"

\* the types the NTScalarMultiChannel definition mandates for its optional fields
MandatedType ==
    [severity |-> createScalarArray(pvInt),
     status |-> createScalarArray(pvInt),
     nanoseconds |-> createScalarArray(pvInt),
     userTag |-> createScalarArray(pvInt),
     message |-> createScalarArray(pvString),
     secondsPastEpoch |-> createScalarArray(pvLong),
     descriptor |-> createScalar(pvString),
     alarm |-> StandardAlarm,
     timeStamp |-> StandardTimeStamp]

FieldsNamed(st, name) ==
    {st.fields[i] : i \in {j \in 1..Len(st.names) : st.names[j] = name}}

CompatibleAsDocumented(st) ==
    /\ \E f \in FieldsNamed(st, "value") : f.kind = "scalarArray"
    /\ \E f \in FieldsNamed(st, "channelName") : f = createScalarArray(pvString)
    /\ \A name \in DOMAIN MandatedType :
          \A f \in FieldsNamed(st, name) : f = MandatedType[name]

\* C3: on a non-null schema isCompatible is true exactly when value is a scalar
\* array, channelName is a string array and every optional field that is present
\* has its mandated type; a schema without channelName, and one whose timeStamp
\* is not the standard timestamp, are rejected.
C3_IsCompatibleIff ==
    (call.op = "MC_isCompatibleStructure" /\ call.arg # NULL) =>
        /\ call.val.ret <=> CompatibleAsDocumented(call.arg)
        /\ FieldsNamed(call.arg, "channelName") = {} => ~call.val.ret
        /\ (\E f \in FieldsNamed(call.arg, "timeStamp") : f # StandardTimeStamp)
              => ~call.val.ret

\* C3 witness: a schema with a good value and channelName is rejected for its
\* timeStamp field alone.
C3_Witness ==
    /\ call.op = "MC_isCompatibleStructure"
    /\ call.arg.names = <<"value", "channelName", "timeStamp">>
    /\ call.arg.fields[1].kind = "scalarArray"
    /\ call.arg.fields[2] = createScalarArray(pvString)
    /\ call.arg.fields[3] = createScalar(pvInt)
    /\ call.val = Bool(FALSE)

\* C4: every compatibility predicate returns false, without a fault, on a null
\* argument.
C4_NullIsIncompatible ==
    /\ (call.op = "MC_isCompatibleStructure" /\ call.arg = NULL) => call.val = Bool(FALSE)
    /\ (call.op = "MC_isCompatible" /\ ~call.arg.pv) => call.val = Bool(FALSE)
    /\ (call.op = "ND_is_compatible" /\ ~call.arg.pv) => call.val = Bool(FALSE)

\* C4, the two NTScalarMultiChannel predicates alone: false on null.
C4_NullIsIncompatibleMC ==
    /\ (call.op = "MC_isCompatibleStructure" /\ call.arg = NULL) => call.val = Bool(FALSE)
    /\ (call.op = "MC_isCompatible" /\ ~call.arg.pv) => call.val = Bool(FALSE)

\* C5: wrap of the instance an NTScalarMultiChannelBuilder made, whatever the
\* value type and toggles, with no extra fields, is a wrapper of that instance.
C5_RoundTrip ==
    (call.op = "MC_wrap" /\ call.cfg.kind = "mc" /\ call.cfg.extraFieldNames = <<>>) =>
        /\ call.val.kind = "NTScalarMultiChannel"
        /\ call.val.pvNTScalarMultiChannel = call.arg
        /\ call.arg.structure.names = MC_names(call.cfg)

\* C5 witness: the round trip with every toggle set and a string value.
C5_Witness ==
    /\ call.op = "MC_wrap"
    /\ call.cfg.kind = "mc"
    /\ call.cfg.extraFieldNames = <<>>
    /\ call.cfg.valueType = pvString
    /\ \A i \in 1..Len(OptionalNames) : call.cfg[OptionalNames[i]]
    /\ call.val.kind = "NTScalarMultiChannel"

\* the optional names, in the documented order, whose flag is set in cfg
ToggledNames(cfg) == SelectSeq(OptionalNames, LAMBDA n : cfg[n])

\* C6: the schema createStructure returns is tagged with the URI and lists
\* value, channelName, then the toggled optional fields in the one documented
\* order, then the extra fields as add() received them, none dropped.
C6_FieldOrder ==
    (call.op = "MCB_createStructure" /\ call.val.kind = "structure") =>
        LET n == 2 + Len(ToggledNames(call.cfg))
        IN  /\ call.val.id = "epics:nt/NTScalarMultiChannel:1.0"
            /\ call.val.names =
                  <<"value", "channelName">> \o ToggledNames(call.cfg)
                      \o call.cfg.extraFieldNames
            /\ Len(call.val.fields) = n + Len(call.cfg.extraFields)
            /\ \A i \in 1..Len(call.cfg.extraFields) :
                  call.val.fields[n + i] = call.cfg.extraFields[i]

\* C6 witness: a schema made after toggles called out of order and two extra
\* fields of different names.
C6_Witness ==
    /\ call.op = "MCB_createStructure"
    /\ call.val.kind = "structure"
    /\ call.cfg.userTag /\ call.cfg.descriptor /\ call.cfg.severity
    /\ call.cfg.extraFieldNames = <<"timeStamp", "user">>
    /\ call.val.names =
          <<"value", "channelName", "descriptor", "severity", "userTag",
            "isConnected", "timeStamp", "user">>

\* C7 as stated: the first createStructure of a new builder, before any toggle
\* was invoked, returns exactly the fields value and channelName.
C7_OnlyMandatoryByDefault ==
    [][(call = NoCall /\ builder.kind = "mc" /\ call'.op = "MCB_createStructure")
          => call'.val.names = <<"value", "channelName">>]_vars

\* C7 amended: the schema contains exactly value, channelName, one field for
\* each flag that is set and the extra fields, where the isConnected flag is set
\* by default: with nothing toggled and no extra fields the field list is
\* [value, channelName, isConnected], and with value type int and only the
\* timeStamp toggle it is [value, channelName, timeStamp, isConnected].
C7_ExactFields ==
    (call.op = "MCB_createStructure" /\ call.val.kind = "structure") =>
        /\ Len(call.val.names) =
              2 + Cardinality({i \in 1..Len(OptionalNames) : call.cfg[OptionalNames[i]]})
                + Len(call.cfg.extraFieldNames)
        /\ \A i \in 1..Len(OptionalNames) :
              call.cfg[OptionalNames[i]] <=>
                  \E j \in 3..(Len(call.val.names) - Len(call.cfg.extraFieldNames)) :
                      call.val.names[j] = OptionalNames[i]
        /\ call.cfg = MC_createBuilder =>
              call.val.names = <<"value", "channelName", "isConnected">>
        /\ call.cfg = [MC_createBuilder EXCEPT !.valueType = pvInt, !.timeStamp = TRUE] =>
              /\ call.val.names = <<"value", "channelName", "timeStamp", "isConnected">>
              /\ call.val.fields[1] = createScalarArray(pvInt)

\* C7 witness: the schema of value type int with only timeStamp toggled.
C7_Witness ==
    /\ call.op = "MCB_createStructure"
    /\ call.cfg = [MC_createBuilder EXCEPT !.valueType = pvInt, !.timeStamp = TRUE]
    /\ call.val.names = <<"value", "channelName", "timeStamp", "isConnected">>

\* the documented name and type of each NTNDArrayBuilder toggle
NDOptional ==
    [descriptor |-> createScalar(pvString),
     timeStamp |-> StandardTimeStamp,
     alarm |-> StandardAlarm,
     display |-> StandardDisplay]

\* C8: with no extra fields, an NTNDArrayBuilder with exactly one toggle set
\* returns the default schema plus the one field of the documented name and
\* type, and is_compatible is true on the instance made from any combination of
\* the toggles.
C8_OneExtraFieldAndCompatible ==
    /\ (call.op = "NDB_createStructure" /\ call.cfg.extraFieldNames = <<>>
        /\ call.val.kind = "structure") =>
          \A t \in DOMAIN NDOptional :
              (\A u \in DOMAIN NDOptional : call.cfg[u] <=> u = t) =>
                  /\ call.val.names = ND_names(ND_createBuilder) \o <<t>>
                  /\ call.val.fields = ND_fields(ND_createBuilder) \o <<NDOptional[t]>>
    /\ (call.op = "ND_is_compatible" /\ call.cfg.kind = "nd"
        /\ call.cfg.extraFieldNames = <<>>) =>
          /\ call.val = Bool(TRUE)
          /\ \A t \in DOMAIN NDOptional :
                call.cfg[t] <=> NDOptional[t] \in FieldsNamed(call.arg.structure, t)

\* C8 witness: is_compatible has accepted the instance made with display alone.
C8_Witness ==
    /\ call.op = "ND_is_compatible"
    /\ call.cfg.kind = "nd"
    /\ call.cfg.extraFieldNames = <<>>
    /\ call.cfg.display /\ ~call.cfg.alarm /\ ~call.cfg.timeStamp /\ ~call.cfg.descriptor
    /\ call.arg.structure.names[9] = "display"
    /\ call.val = Bool(TRUE)

\* what an attach call must return on wrapped instance pv for the field name
AttachAsDocumented(pv, name, val, helperOk(_)) ==
    LET h == getSubField(pv, name)
    IN  /\ val.kind = "bool"
        /\ h = NoHandle => (~val.ret /\ val.attached = NoHandle)
        /\ h.field.kind = "structure" =>
              /\ val.ret = helperOk(h)
              /\ val.ret => val.attached = h

\* C9: on a wrapper of an instance without the field, attachTimeStamp,
\* attachAlarm and attachDataTimeStamp return false, do not fault and attach
\* nothing; with the field present as a structure they attach the helper to that
\* field and return the helper's result.
C9_AttachAbsentIsFalse ==
    /\ (call.op = "MC_attachTimeStamp" /\ call.arg.pvNTScalarMultiChannel.pv) =>
          AttachAsDocumented(call.arg.pvNTScalarMultiChannel, "timeStamp", call.val,
                             PVTimeStamp_attach)
    /\ (call.op = "MC_attachAlarm" /\ call.arg.pvNTScalarMultiChannel.pv) =>
          AttachAsDocumented(call.arg.pvNTScalarMultiChannel, "alarm", call.val,
                             PVAlarm_attach)
    /\ (call.op = "ND_attachTimeStamp" /\ call.arg.pvNTNDArray.pv) =>
          AttachAsDocumented(call.arg.pvNTNDArray, "timeStamp", call.val,
                             PVTimeStamp_attach)
    /\ (call.op = "ND_attachDataTimeStamp" /\ call.arg.pvNTNDArray.pv) =>
          AttachAsDocumented(call.arg.pvNTNDArray, "dataTimeStamp", call.val,
                             PVTimeStamp_attach)
    /\ (call.op = "ND_attachAlarm" /\ call.arg.pvNTNDArray.pv) =>
          AttachAsDocumented(call.arg.pvNTNDArray, "alarm", call.val, PVAlarm_attach)

\* C9 witness: attachTimeStamp has returned false on an NTScalarMultiChannel
\* wrapper whose instance has no timeStamp field.
C9_Witness ==
    /\ call.op = "MC_attachTimeStamp"
    /\ call.arg.pvNTScalarMultiChannel.pv
    /\ FieldsNamed(call.arg.pvNTScalarMultiChannel.structure, "timeStamp") = {}
    /\ call.val.ret = FALSE
    /\ call.val.attached = NoHandle

\* the toggles: the call, the builder it belongs to and the flag it owns
Toggles ==
    {<<"MCB_addDescriptor", "mc", "descriptor">>, <<"MCB_addAlarm", "mc", "alarm">>,
     <<"MCB_addTimeStamp", "mc", "timeStamp">>, <<"MCB_addSeverity", "mc", "severity">>,
     <<"MCB_addStatus", "mc", "status">>, <<"MCB_addMessage", "mc", "message">>,
     <<"MCB_addSecondsPastEpoch", "mc", "secondsPastEpoch">>,
     <<"MCB_addNanoseconds", "mc", "nanoseconds">>,
     <<"MCB_addUserTag", "mc", "userTag">>,
     <<"MCB_addIsConnected", "mc", "isConnected">>,
     <<"NDB_addDescriptor", "nd", "descriptor">>, <<"NDB_addAlarm", "nd", "alarm">>,
     <<"NDB_addTimeStamp", "nd", "timeStamp">>, <<"NDB_addDisplay", "nd", "display">>}

\* C10: a toggle sets its own flag, changes no other flag, nor the value type,
\* nor the extra-field list, returns the builder it was called on, and a second
\* call of it right after the first changes nothing.
C10_ToggleFrame ==
    [][\A t \in Toggles :
          call'.op = t[1] =>
              /\ builder.kind = t[2]
              /\ builder'[t[3]] = TRUE
              /\ \A f \in DOMAIN builder \ {t[3]} : builder'[f] = builder[f]
              /\ DOMAIN builder' = DOMAIN builder
              /\ call'.val = This
              /\ call.op = t[1] => builder' = builder]_vars

\* C10 witness: addAlarm has been called on a builder that already had a value
\* type, a flag and an extra field set, and they are as they were.
C10_Witness ==
    /\ call.op = "MCB_addAlarm"
    /\ builder.alarm /\ builder.severity /\ ~builder.timeStamp
    /\ builder.valueType = pvInt
    /\ builder.extraFieldNames = <<"user">>

\* the tests NTNDArray::is_compatible makes before it looks at the attribute
\* field, as a condition on the schema
BeforeAttributeOk(st) ==
    /\ \E f \in FieldsNamed(st, "value") : f.kind = "union"
    /\ \A f \in FieldsNamed(st, "descriptor") : f = createScalar(pvString)
    /\ \A f \in FieldsNamed(st, "alarm") : f = StandardAlarm
    /\ \A f \in FieldsNamed(st, "timeStamp") : f = StandardTimeStamp
    /\ \A f \in FieldsNamed(st, "display") : f = StandardDisplay
    /\ FieldsNamed(st, "compressedSize") = {createScalar(pvLong)}
    /\ FieldsNamed(st, "uncompressedSize") = {createScalar(pvLong)}
    /\ \E f \in FieldsNamed(st, "codec") :
          /\ f.kind = "structure"
          /\ FieldsNamed(f, "name") = {createScalar(pvString)}
          /\ \E g \in FieldsNamed(f, "parameters") : g.kind = "union"
    /\ \E f \in FieldsNamed(st, "dimension") :
          f.kind = "structureArray" /\ f.id = "dimension_t"
    /\ FieldsNamed(st, "uniqueId") = {createScalar(pvInt)}
    /\ \A f \in FieldsNamed(st, "dataTimeStamp") : f = StandardTimeStamp

HasAttributeArray(st) ==
    \E f \in FieldsNamed(st, "attribute") : f.kind = "structureArray"

AttributeId(st) == getField(st, "attribute").id

\* C11 as stated: on an instance that passes the earlier tests and has an
\* attribute structure array, is_compatible returns true whatever the identifier
\* of the attribute element structure is.
C11_AttributeIdNeverRejects ==
    (call.op = "ND_is_compatible" /\ call.arg.pv
     /\ BeforeAttributeOk(call.arg.structure)
     /\ HasAttributeArray(call.arg.structure)) =>
        call.val = Bool(TRUE)

\* C11 amended: on such an instance is_compatible returns false when the
\* identifier of the attribute element structure is the string "ntAttrStr", and
\* true for every other identifier, the NTAttribute identifier the builder
\* writes and identifiers unrelated to it alike.
C11_AttributeIdRejectsLiteral ==
    (call.op = "ND_is_compatible" /\ call.arg.pv
     /\ BeforeAttributeOk(call.arg.structure)
     /\ HasAttributeArray(call.arg.structure)) =>
        /\ call.val.kind = "bool"
        /\ call.val.ret <=> AttributeId(call.arg.structure) # "ntAttrStr"
        /\ AttributeId(call.arg.structure)
              \in {"uri:ev4:nt/2014/pwd:NTAttribute", "other_t"} => call.val.ret

\* C11 witness: is_compatible has rejected an instance for the attribute
\* identifier "ntAttrStr" alone.
C11_Witness ==
    /\ call.op = "ND_is_compatible"
    /\ call.arg.pv
    /\ BeforeAttributeOk(call.arg.structure)
    /\ HasAttributeArray(call.arg.structure)
    /\ AttributeId(call.arg.structure) = "ntAttrStr"
    /\ call.val = Bool(FALSE)

\* C12: narrow returns an empty result for every instance on which
\* is_compatible returns false, and a wrapper only for instances that
\* is_compatible accepts.
C12_NarrowValidates ==
    (call.op = "ND_narrow" /\ call.arg.pv) =>
        /\ Bool(FALSE) \in ND_is_compatible(call.arg) => call.val = NullWrapper
        /\ call.val.kind = "NTNDArray" => ND_is_compatible(call.arg) = {Bool(TRUE)}

\* C12, what narrow does test: it returns a wrapper of its argument exactly when
\* the argument is non-null and its identifier is NTNDArray::URI.
C12_NarrowTestsIdOnly ==
    call.op = "ND_narrow" =>
        IF call.arg.pv /\ call.arg.structure.id = "uri:ev4:nt/2014/pwd:NTNDArray"
        THEN call.val.kind = "NTNDArray" /\ call.val.pvNTNDArray = call.arg
        ELSE call.val = NullWrapper

\* the field the builder emits under a name, and whether a schema has it
BuilderField(name) ==
    getField(createStructureType(NTNDArray_URI, NDMandatoryNames,
                                 ND_fields(ND_createBuilder)), name)

\* a schema has the builder's field of that name (for attribute: with whatever
\* element identifier)
HasBuilderField(st, name) ==
    \E f \in FieldsNamed(st, name) :
        IF name = "attribute" THEN [f EXCEPT !.id = ntAttrStr] = BuilderField(name)
        ELSE f = BuilderField(name)

\* C13: on a non-null instance in which a field the builder always emits is
\* missing or has another type, is_compatible returns false and does not fault.
C13_MissingMandatoryRejected ==
    (call.op = "ND_is_compatible" /\ call.arg.pv
     /\ \E i \in 1..Len(NDMandatoryNames) :
           ~HasBuilderField(call.arg.structure, NDMandatoryNames[i])) =>
        call.val = Bool(FALSE)

\* C13, the fields tested before dimension: a missing or wrongly typed value,
\* compressedSize, uncompressedSize or codec is rejected.
C13_EarlyFieldsRejected ==
    (call.op = "ND_is_compatible" /\ call.arg.pv
     /\ \E n \in {"value", "compressedSize", "uncompressedSize", "codec"} :
           ~HasBuilderField(call.arg.structure, n)) =>
        call.val = Bool(FALSE)

\* the schema inside what a create call of NTScalarMultiChannelBuilder returned
ReturnedSchema ==
    CASE call.op = "MCB_createStructure" -> call.val
      [] call.op = "MCB_createPVStructure" -> call.val.structure
      [] call.op = "MCB_create" -> call.val.pvNTScalarMultiChannel.structure

\* C14: the isConnected flag of an NTScalarMultiChannelBuilder is true in every
\* reachable state, and every schema the builder returns has a boolean-array
\* field isConnected.
C14_IsConnectedAlways ==
    /\ builder.kind = "mc" => builder.isConnected
    /\ (call.op \in {"MCB_createStructure", "MCB_createPVStructure", "MCB_create"}
        /\ call.val.kind # "exception") =>
          /\ call.cfg.isConnected
          /\ \E i \in 1..Len(ReturnedSchema.names) :
                /\ ReturnedSchema.names[i] = "isConnected"
                /\ ReturnedSchema.fields[i] = createScalarArray(pvBoolean)

\* C14 witness: a schema made after value(), toggles and add() has isConnected,
\* which no call asked for.
C14_Witness ==
    /\ call.op = "MCB_createPVStructure"
    /\ call.val.kind = "pv"
    /\ call.cfg.valueType = pvInt /\ call.cfg.alarm
    /\ call.cfg.extraFieldNames = <<"user">>
    /\ call.val.structure.names = <<"value", "channelName", "alarm", "isConnected", "user">>

\* a schema without its fields of one name, and with one more field
WithoutField(st, name) ==
    LET keep == SelectSeq([i \in 1..Len(st.names) |-> i],
                          LAMBDA i : st.names[i] # name)
    IN  createStructureType(st.id, [i \in 1..Len(keep) |-> st.names[keep[i]]],
                            [i \in 1..Len(keep) |-> st.fields[keep[i]]])

WithField(st, name, field) ==
    createStructureType(st.id, Append(st.names, name), Append(st.fields, field))

\* the schemas that differ from st at most in the isConnected field
IsConnectedVariants(st) ==
    {WithoutField(st, "isConnected")} \cup
    {WithField(WithoutField(st, "isConnected"), "isConnected", t) : t \in ReceivedTypes}

\* C15: isCompatible gives the same result on two schemas that differ only in
\* the isConnected field; wrap accepts an otherwise compatible instance whose
\* isConnected is not a boolean array, and the wrapper's isConnected handle is
\* then empty.
C15_IsConnectedIgnored ==
    /\ (call.op = "MC_isCompatibleStructure" /\ call.arg # NULL) =>
          \A v \in IsConnectedVariants(call.arg) : MC_isCompatible(v) = call.val.ret
    /\ (call.op = "MC_wrap" /\ call.arg.pv
        /\ CompatibleAsDocumented(WithoutField(call.arg.structure, "isConnected"))) =>
          /\ call.val.kind = "NTScalarMultiChannel"
          /\ call.val.pvNTScalarMultiChannel = call.arg
          /\ call.val.pvIsConnected # NoHandle <=>
                FieldsNamed(call.arg.structure, "isConnected")
                    = {createScalarArray(pvBoolean)}

\* C15 witness: wrap has accepted an instance whose isConnected is an int
\* scalar, and the wrapper has no isConnected handle.
C15_Witness ==
    /\ call.op = "MC_wrap"
    /\ call.arg.pv
    /\ FieldsNamed(call.arg.structure, "isConnected") = {createScalar(pvInt)}
    /\ call.val.kind = "NTScalarMultiChannel"
    /\ call.val.pvIsConnected = NoHandle

====
